---- MODULE Spec2Model ----
(***************************************************************************)
(* Entitlement ledger of the AI Career Accelerator.                        *)
(*                                                                         *)
(* The model covers payments_db.py (the SQLite ledger and its lock), the   *)
(* webhook handler of webhook_server.py, the payment gate of app.py (one   *)
(* Streamlit session) and the gateway helpers of payments.py.              *)
(*                                                                         *)
(* A ledger call takes the steps other threads can tell apart: it enters   *)
(* get_connection (lock and connection), then executes each SQL statement  *)
(* (autocommit, isolation_level=None: a statement is a transaction); the   *)
(* step of its last statement also leaves get_connection.                  *)
(*                                                                         *)
(* Spec is the application: one UI session and the webhook endpoint, in    *)
(* one process or in two.  SpecApi is the ledger module under one caller   *)
(* that calls its functions in any order with any arguments, which is      *)
(* where the admin panel's two calls (is_user_paid, mark_user_paid) live.  *)
(***************************************************************************)
EXTENDS Integers, FiniteSets, Sequences, TLC

\* ---------------------------------------------------------------- bounds
MaxClock == 1
MaxInvoices == 1
MaxUses == 5

\* ------------------------------------------------------------- constants
PremiumAmount == 1500
ManualAmount == 1000
Null == -1
FreeLimit == 3

\* ------------------------------------------------------------ value sets
Threads == {"ui", "wh", "api"}
NoThread == "none"
Procs == {"main", "whsrv"}
Deployments == {"single", "split"}
SessionUser == "u1"
Users == {"", "u1", "u2"}
Times == 0..MaxClock

NoInvoice == <<"", "", 0>>
GwInvoice(n) == <<"INV", "", n>>
GwInvoices == {GwInvoice(n) : n \in 1..MaxInvoices}

\* f"manual-whatsapp-{user_id}-{int(datetime.utcnow().timestamp())}"
ManualInvoiceId(user_id, ts) == <<"manual-whatsapp", user_id, ts>>

\* str.upper() on the state strings the model sends
Upper(s) ==
    CASE s = "paid" -> "PAID"
      [] s = "Completed" -> "COMPLETED"
      [] s = "Cancelled" -> "CANCELLED"
      [] s = "declined" -> "DECLINED"
      [] OTHER -> s
PaidStates == {"PAID", "COMPLETED", "SUCCESS"}
FailedStates == {"FAILED", "CANCELLED", "DECLINED"}
WireStates == {"PAID", "paid", "SUCCESS", "FAILED", ""}

\* ------------------------------------------------------------------ state
VARIABLES
    payments,    \* rows of the payments table
    clock,       \* datetime.utcnow() in seconds
    lock,        \* _db_lock of each process: the holder or NoThread
    pc,          \* position of each thread
    call,        \* the ledger call each thread is in (or was last in)
    out,         \* outcome of that call
    sess,        \* st.session_state of the UI session
    gw,          \* the gateway's state of each invoice it can issue
    whResp,      \* the HTTP response the webhook endpoint is sending
    env,         \* configuration: the IntaSend keys of the app's process
                 \* (key) and of the webhook server's (secret), deployment
    fn,          \* the last application of a function of payments.py or
                 \* app.py to arguments: its name, arguments and result
    outputs,     \* rows of the user_outputs table, and as history the
                 \* arguments of the last save of each user that returned True
    kit,         \* st.session_state["analysis_uses"], and as history the
                 \* runs completed while unpaid and the last click
    hist         \* history per invoice: mark_invoice_paid calls that returned
                 \* True (counted to 2), and whether one made by the generic
                 \* caller hit a store error

vars == <<payments, clock, lock, pc, call, out, sess, gw, whResp, env,
          fn, outputs, kit, hist>>

\* app.py starts the webhook server in a thread of its own process
\* ("single"); webhook_server.py can also be started on its own ("split")
Proc(t) == IF t = "wh" /\ env.deploy = "split" THEN "whsrv" ELSE "main"

\* ------------------------------------------------- SQL of payments_db.py
Row(user_id, phone, invoice_id, amount, is_paid, paid_at) ==
    [user_id |-> user_id, phone |-> phone, invoice_id |-> invoice_id,
     amount |-> amount, is_paid |-> is_paid, paid_at |-> paid_at]

Violates_NoAmountCheck(rows, row) ==
    \/ \E r \in rows : r.invoice_id = row.invoice_id
    \/ row.is_paid \notin {0, 1}

\* table constraints: invoice_id UNIQUE, CHECK(amount > 0),
\* CHECK(is_paid IN (0, 1))
Violates(rows, row) ==
    \/ \E r \in rows : r.invoice_id = row.invoice_id
    \/ ~(row.amount > 0)
    \/ row.is_paid \notin {0, 1}

InsertOrReplace(rows, row) ==
    IF ~(row.amount > 0) \/ row.is_paid \notin {0, 1} THEN rows
    ELSE {r \in rows : r.invoice_id # row.invoice_id} \cup {row}

\* INSERT OR IGNORE INTO payments ...
InsertOrIgnore(rows, row) ==
    IF Violates(rows, row) THEN rows ELSE rows \cup {row}

SetPaid_NoTimestamp(r, now) == [r EXCEPT !.is_paid = 1]

\* SET is_paid = 1, paid_at = ?
SetPaid(r, now) == [r EXCEPT !.is_paid = 1, !.paid_at = now]

MarkInvoiceWhere_NoPaidGuard(rows, invoice_id) ==
    {r \in rows : r.invoice_id = invoice_id}

\* WHERE invoice_id = ? AND is_paid = 0
MarkInvoiceWhere(rows, invoice_id) ==
    {r \in rows : r.invoice_id = invoice_id /\ r.is_paid = 0}

MarkUserWhere_NoPaidGuard(rows, user_id) ==
    {r \in rows : r.user_id = user_id}

\* WHERE user_id = ? AND is_paid = 0
MarkUserWhere(rows, user_id) ==
    {r \in rows : r.user_id = user_id /\ r.is_paid = 0}

\* UPDATE payments SET ... WHERE ...: the matched rows are rewritten
Update(rows, matched, now) ==
    (rows \ matched) \cup {SetPaid(r, now) : r \in matched}

IsUserPaidSelect_AnyRow(rows, user_id) ==
    {r \in rows : r.user_id = user_id}

\* SELECT 1 FROM payments WHERE user_id = ? AND is_paid = 1 LIMIT 1
IsUserPaidSelect(rows, user_id) ==
    {r \in rows : r.user_id = user_id /\ r.is_paid = 1}

PendingRow(user_id, phone, invoice_id, amount) ==
    Row(user_id, phone, invoice_id, amount, 0, Null)

ManualRow_Unpaid(user_id, now, ts) ==
    Row(user_id, "WHATSAPP", ManualInvoiceId(user_id, ts), ManualAmount, 0, now)

\* the synthetic row of mark_user_paid
ManualRow(user_id, now, ts) ==
    Row(user_id, "WHATSAPP", ManualInvoiceId(user_id, ts), ManualAmount, 1, now)

\* init_db on a database that init_db created: CREATE ... IF NOT EXISTS and
\* _ensure_columns find everything present
CreateIfNotExists(rows) == rows

Rollback_KeepsWrite(before, after) == after

\* a statement that raises changes nothing, and get_connection rolls back
Rollback(before, after) == before

\* ------------------------------------------------ get_connection()
\* with _db_lock: sqlite3.connect(...) and the three PRAGMAs succeed, the
\* connection is yielded
Acquire(t) == [lock EXCEPT ![Proc(t)] = t]

Failed_ReportsSuccess(c) ==
    [val |-> TRUE, err |-> TRUE, raised |-> c.op = "init_db"]

\* a store exception: the callers' except clauses turn it into False, only
\* init_db has none and lets it propagate
Failed(c) == [val |-> FALSE, err |-> TRUE, raised |-> c.op = "init_db"]

\* with _db_lock: connect or a PRAGMA raises (file unreadable, database
\* locked by another process); the with block unwinds and frees the lock
ConnectFailed(c) == Failed(c)

\* leaving get_connection: conn.commit() / conn.rollback() (both without
\* effect in autocommit mode), conn.close(), _db_lock released
Release(t) == [lock EXCEPT ![Proc(t)] = NoThread]

\* ------------------------------------------------------ call bookkeeping
NoCall == [op |-> "none", user_id |-> "", invoice_id |-> NoInvoice,
           amount |-> 0, now |-> 0, pend |-> FALSE]
NoOut == [val |-> FALSE, err |-> FALSE, raised |-> FALSE]
NoFn == [f |-> "none"]
NoSave == [n |-> 0, resume |-> "", cover_letter |-> "", emails |-> <<>>]
NoOutputs == [rows |-> {}, last |-> [u \in Users \ {""} |-> NoSave]]
NoClick == [msg |-> "none", paid |-> FALSE, steps |-> 0]
NoKit == [analysis_uses |-> 0, free |-> 0, last |-> NoClick]

\* now = datetime.utcnow() of mark_invoice_paid and mark_user_paid
ReadsClock(op) == op \in {"mark_invoice_paid", "mark_user_paid"}

NewCall(t, op, user_id, invoice_id, amount) ==
    [op |-> op, user_id |-> user_id, invoice_id |-> invoice_id,
     amount |-> amount,
     now |-> IF ReadsClock(op) THEN clock ELSE 0,
     \* history: the invoice (mark_invoice_paid) or the user (mark_user_paid)
     \* had a pending row at invocation
     pend |-> \/ /\ op = "mark_invoice_paid"
                 /\ \E r \in payments :
                        r.invoice_id = invoice_id /\ r.is_paid = 0
              \/ /\ op = "mark_user_paid"
                 /\ \E r \in payments : r.user_id = user_id /\ r.is_paid = 0]

\* the early returns taken before get_connection()
Rejected(c) ==
    CASE c.op = "create_payment" ->
            c.user_id = "" \/ c.invoice_id = NoInvoice \/ c.amount = 0
      [] c.op = "mark_invoice_paid" -> c.invoice_id = NoInvoice
      [] c.op \in {"is_user_paid", "mark_user_paid"} -> c.user_id = ""
      [] OTHER -> FALSE

\* history: a mark_invoice_paid attempt of the generic caller hit a store
\* error
NoteFailure(t, c) ==
    IF t = "api" /\ c.op = "mark_invoice_paid"
    THEN [hist EXCEPT ![c.invoice_id].failed = TRUE]
    ELSE hist

\* a thread calls a ledger function: either an early return, or it gets
\* _db_lock of its process (a caller that finds the lock taken blocks, which
\* is the call happening later) and the connection, or connecting fails
Invoke(t, op, user_id, invoice_id, amount) ==
    LET c == NewCall(t, op, user_id, invoice_id, amount) IN
    /\ call' = [call EXCEPT ![t] = c]
    /\ \/ /\ Rejected(c)
          /\ out' = [out EXCEPT ![t] = NoOut]
          /\ pc' = [pc EXCEPT ![t] = "ret"]
          /\ lock' = lock
          /\ hist' = hist
       \/ /\ ~Rejected(c)
          /\ lock[Proc(t)] = NoThread
          /\ \/ /\ out' = [out EXCEPT ![t] = NoOut]
                /\ pc' = [pc EXCEPT ![t] = "body"]
                /\ lock' = Acquire(t)
                /\ hist' = hist
             \/ /\ out' = [out EXCEPT ![t] = ConnectFailed(c)]
                /\ pc' = [pc EXCEPT ![t] = "ret"]
                /\ lock' = lock
                /\ hist' = NoteFailure(t, c)

Returned(t, op) == pc[t] = "ret" /\ call[t].op = op

\* the caller is done with the call
Forget(t) ==
    /\ call' = [call EXCEPT ![t] = NoCall]
    /\ out' = [out EXCEPT ![t] = NoOut]

\* ------------------------------------------------ bodies of the calls
\* the table after the statement the thread is about to execute
StatementEffect(t) ==
    LET c == call[t] IN
    CASE c.op = "create_payment" ->
            InsertOrIgnore(payments,
                PendingRow(c.user_id, "0712345678", c.invoice_id, c.amount))
      [] c.op = "mark_invoice_paid" ->
            Update(payments, MarkInvoiceWhere(payments, c.invoice_id), c.now)
      [] c.op = "mark_user_paid" /\ pc[t] = "body" ->
            Update(payments, MarkUserWhere(payments, c.user_id), c.now)
      [] c.op = "mark_user_paid" /\ pc[t] = "body2" ->
            InsertOrIgnore(payments, ManualRow(c.user_id, c.now, clock))
      [] c.op = "init_db" -> CreateIfNotExists(payments)
      [] OTHER -> payments

\* cursor.rowcount > 0, fetchone() is not None, or the constant returned
StatementValue(t) ==
    LET c == call[t] IN
    CASE c.op = "create_payment" -> StatementEffect(t) # payments
      [] c.op = "mark_invoice_paid" ->
            MarkInvoiceWhere(payments, c.invoice_id) # {}
      [] c.op = "mark_user_paid" /\ pc[t] = "body" ->
            MarkUserWhere(payments, c.user_id) # {}
      [] c.op = "is_user_paid" -> IsUserPaidSelect(payments, c.user_id) # {}
      [] OTHER -> TRUE

Bump(n) == IF n < 2 THEN n + 1 ELSE 2

\* the statement of create_payment, mark_invoice_paid, is_user_paid and
\* init_db, and the UPDATE of mark_user_paid when it matched rows
Exec(t) ==
    /\ pc[t] = "body"
    /\ call[t].op = "mark_user_paid" => StatementValue(t)
    /\ payments' = StatementEffect(t)
    /\ out' = [out EXCEPT ![t].val = StatementValue(t)]
    /\ hist' = IF call[t].op = "mark_invoice_paid" /\ StatementValue(t)
               THEN [hist EXCEPT ![call[t].invoice_id].trues = Bump(@)]
               ELSE hist
    /\ lock' = Release(t)
    /\ pc' = [pc EXCEPT ![t] = "ret"]
    /\ UNCHANGED <<clock, call, sess, gw, whResp, env, fn, outputs, kit>>

\* mark_user_paid: the UPDATE matched no row (updated = False)
ExecUpdateNone(t) ==
    /\ pc[t] = "body"
    /\ call[t].op = "mark_user_paid"
    /\ ~StatementValue(t)
    /\ payments' = StatementEffect(t)
    /\ pc' = [pc EXCEPT ![t] = "body2"]
    /\ UNCHANGED <<clock, lock, call, out, sess, gw, whResp, env, fn, outputs, kit,
                   hist>>

\* mark_user_paid: INSERT OR IGNORE of the synthetic row, return True
ExecInsertManual(t) ==
    /\ pc[t] = "body2"
    /\ payments' = StatementEffect(t)
    /\ out' = [out EXCEPT ![t].val = TRUE]
    /\ lock' = Release(t)
    /\ pc' = [pc EXCEPT ![t] = "ret"]
    /\ UNCHANGED <<clock, call, sess, gw, whResp, env, fn, outputs, kit, hist>>

ExecFail_KeepsLock(t) ==
    /\ pc[t] \in {"body", "body2"}
    /\ payments' = Rollback(payments, StatementEffect(t))
    /\ out' = [out EXCEPT ![t] = Failed(call[t])]
    /\ hist' = NoteFailure(t, call[t])
    /\ lock' = lock
    /\ pc' = [pc EXCEPT ![t] = "ret"]
    /\ UNCHANGED <<clock, call, sess, gw, whResp, env, fn, outputs, kit>>

\* the statement raises (sqlite3.OperationalError and the like)
ExecFail(t) ==
    /\ pc[t] \in {"body", "body2"}
    /\ payments' = Rollback(payments, StatementEffect(t))
    /\ out' = [out EXCEPT ![t] = Failed(call[t])]
    /\ hist' = NoteFailure(t, call[t])
    /\ lock' = Release(t)
    /\ pc' = [pc EXCEPT ![t] = "ret"]
    /\ UNCHANGED <<clock, call, sess, gw, whResp, env, fn, outputs, kit>>

\* ------------------------------------------------------ payments.py
\* a phone number as typed is a sequence of characters
Digit == {"0", "1", "2", "3", "4", "5", "6", "7", "8", "9"}
IsDigit(c) == c \in Digit
NotSpaceOrDash(c) == c \notin {" ", "-"}
StartsWith(s, p) == Len(s) >= Len(p) /\ SubSeq(s, 1, Len(p)) = p

\* a subscriber number, and the ways to write it
Subscriber == <<"7", "1", "2", "3", "4", "5", "6", "7", "8">>
Trunk(n) == <<"0">> \o n
Country(n) == <<"2", "5", "4">> \o n
Plus(n) == <<"+">> \o n
\* groups of three characters from the right, separated by sep
Grouped(s, sep) ==
    LET k == Len(s) IN
    SubSeq(s, 1, k - 6) \o <<sep>> \o SubSeq(s, k - 5, k - 3)
        \o <<sep>> \o SubSeq(s, k - 2, k)

\* what the user types in the M-Pesa field: nothing, "0712 345 678", "12345"
PhoneInputs ==
    {<<>>, Grouped(Trunk(Subscriber), " "), <<"1", "2", "3", "4", "5">>}

\* re.sub(r"[ \-]", "", phone_input)
CleanPhone(p) == SelectSeq(p, NotSpaceOrDash)

IsValidKenyanPhone_AnyDigits(p) ==
    p # <<>> /\ CleanPhone(p) = SelectSeq(p, IsDigit)

\* ^(07\d{8}|01\d{8}|2547\d{8}|2541\d{8}|\+2547\d{8}|\+2541\d{8})$ on the
\* phone without spaces and hyphens
IsValidKenyanPhone(p) ==
    LET c == CleanPhone(p)
        d == SelectSeq(c, IsDigit)
    IN  /\ p # <<>>
        /\ \/ c = d /\ Len(d) = 10
                    /\ (StartsWith(d, <<"0", "7">>) \/ StartsWith(d, <<"0", "1">>))
           \/ c = d /\ Len(d) = 12
                    /\ (StartsWith(d, <<"2", "5", "4", "7">>)
                        \/ StartsWith(d, <<"2", "5", "4", "1">>))
           \/ c = Plus(d) /\ Len(d) = 12
                    /\ (StartsWith(d, <<"2", "5", "4", "7">>)
                        \/ StartsWith(d, <<"2", "5", "4", "1">>))

NormalizePhone_KeepsTrunkZero(x) ==
    LET d == SelectSeq(x, IsDigit) IN
    IF Len(d) = 10 /\ (StartsWith(d, <<"0", "7">>) \/ StartsWith(d, <<"0", "1">>))
    THEN Country(d)
    ELSE IF Len(d) = 9 /\ d[1] \in {"7", "1"} THEN Country(d)
    ELSE d

\* normalize_phone: digits = re.sub(r"\D", "", phone_number or ""), then the
\* three recognised forms and the fallback, which returns the digits as
\* they are
NormalizePhone(x) ==
    LET d == SelectSeq(x, IsDigit) IN
    IF Len(d) = 10 /\ (StartsWith(d, <<"0", "7">>) \/ StartsWith(d, <<"0", "1">>))
    THEN Country(Tail(d))
    ELSE IF Len(d) = 9 /\ d[1] \in {"7", "1"} THEN Country(d)
    ELSE IF StartsWith(d, <<"2", "5", "4">>) /\ Len(d) >= 9 THEN d
    ELSE d

\* what requests.post(.../payment/mpesa-stk-push/) can come to: an exception
\* (connection error, timeout), a non-2xx status, a body that is not JSON, a
\* JSON body without invoice_id, or one with the invoice the gateway opened
PushFailures == {"neterror", "timeout", "non2xx", "badjson", "noinvoice"}
PushReplies ==
    {[kind |-> k, invoice_id |-> NoInvoice] : k \in PushFailures}
    \cup {[kind |-> k, invoice_id |-> i] :
            k \in {"accepted", "non2xx"}, i \in GwInvoices}

\* trigger_mpesa_payment: the request it posts, if it posts one
ChargeRequest(cfg, phone, amount) ==
    [sent |-> cfg,
     phone_number |-> IF cfg THEN NormalizePhone(phone) ELSE <<>>,
     amount |-> IF cfg THEN amount ELSE 0]

TriggerMpesaPayment_NoRaiseForStatus(cfg, reply) ==
    IF ~cfg THEN NoInvoice ELSE reply.invoice_id

\* trigger_mpesa_payment: the invoice_id it returns, NoInvoice for None
TriggerMpesaPayment(cfg, reply) ==
    IF ~cfg THEN NoInvoice
    ELSE IF reply.kind = "accepted" THEN reply.invoice_id
    ELSE NoInvoice

\* get_intasend_config in a process: INTASEND_API_KEY is the Bearer token of
\* the gateway calls and the webhook secret; the webhook server started on
\* its own has its own environment
HasConfig(p) == IF p = "whsrv" THEN env.secret ELSE env.key

\* check_payment_status: the answers to POST /payment/status/.  kind is "ok"
\* for a 2xx JSON object, else the exception raised; state and status are the
\* two keys of the object, "" for a missing, null or empty one
WireStatus ==
    {"", "PAID", "paid", "Completed", "SUCCESS", "FAILED", "Cancelled",
     "declined", "PENDING"}

WireReplies ==
    {[kind |-> k, state |-> "", status |-> ""] :
        k \in {"neterror", "non2xx", "badjson"}}
    \cup {[kind |-> "non2xx", state |-> "PAID", status |-> ""]}
    \cup {[kind |-> "ok", state |-> st, status |-> su] :
            st \in WireStatus, su \in WireStatus}

\* the answers that carry their word in the state key
StateReplies == {w \in WireReplies : w.status = ""}

\* data.get("state") or data.get("status") or ""
StatusField(reply) == IF reply.state # "" THEN reply.state ELSE reply.status

\* r is an answer the gateway can give for an invoice: it reports a payment
\* or a failure only of an invoice that was paid or failed
IsStatusReply(inv, r) ==
    r.kind = "ok" =>
        /\ Upper(StatusField(r)) \in PaidStates => gw[inv] = "PAID"
        /\ Upper(StatusField(r)) \in FailedStates => gw[inv] = "FAILED"

CheckPaymentStatus_NoUpper(cfg, reply) ==
    IF ~cfg \/ reply.kind # "ok" THEN "None"
    ELSE IF StatusField(reply) \in PaidStates THEN "True"
    ELSE IF StatusField(reply) \in FailedStates THEN "False"
    ELSE "None"

\* check_payment_status: "True", "False" or "None"
CheckPaymentStatus(cfg, reply) ==
    IF ~cfg \/ reply.kind # "ok" THEN "None"
    ELSE IF Upper(StatusField(reply)) \in PaidStates THEN "True"
    ELSE IF Upper(StatusField(reply)) \in FailedStates THEN "False"
    ELSE "None"

\* ----------------------------------------------------- webhook_server.py
\* verify_intasend_signature.  X-IntaSend-Signature as the handler sees it:
\* "missing" (absent, read as ""), "valid" / "valid_upper" (the hex digest of
\* the body, in either case), "wrong" (an ASCII string that is not the
\* digest), "nonascii" (a header with a byte above 0x7f, decoded as latin-1:
\* hmac.compare_digest raises TypeError on a str with non-ASCII characters)
VerifySignature(sig) ==
    IF ~HasConfig(Proc("wh")) THEN "ok"
    ELSE IF sig = "missing" THEN "reject"
    ELSE IF sig = "nonascii" THEN "raise"
    ELSE IF sig \in {"valid", "valid_upper"} THEN "ok"
    ELSE "reject"

\* requests the gateway sends about an invoice it issued
GatewayRequests ==
    {[sig |-> "valid", json |-> TRUE, invoice_id |-> i, state |-> st] :
        i \in GwInvoices, st \in WireStates}
    \cup {[sig |-> "valid_upper", json |-> TRUE, invoice_id |-> i,
           state |-> "PAID"] : i \in GwInvoices}

\* requests of someone who does not know the secret: a body that claims a
\* payment, with or without an invoice, or one that is not JSON
ForgedRequests ==
    {[sig |-> s, json |-> TRUE, invoice_id |-> i, state |-> "PAID"] :
        s \in {"missing", "wrong", "nonascii"},
        i \in GwInvoices \cup {NoInvoice}}
    \cup {[sig |-> s, json |-> FALSE, invoice_id |-> NoInvoice, state |-> ""] :
        s \in {"missing", "wrong", "nonascii"}}

Truthful(req) ==
    /\ gw[req.invoice_id] # "NONE"
    /\ Upper(req.state) \in PaidStates => gw[req.invoice_id] = "PAID"
    /\ Upper(req.state) \in FailedStates => gw[req.invoice_id] = "FAILED"
    /\ req.state # ""

\* history kept with the response: the request had to be refused, i.e. a
\* secret is configured and the header is missing or is not the digest
Unsigned(sig) == HasConfig(Proc("wh")) /\ sig \notin {"valid", "valid_upper"}

NoResp == [code |-> 0, unsigned |-> FALSE]
Respond(code, sig) == [code |-> code, unsigned |-> Unsigned(sig)]

\* every POST the endpoint can receive
Requests == GatewayRequests \cup ForgedRequests

\* the requests whose state is not one of PAID, COMPLETED, SUCCESS
NonPaidReports == {req \in Requests : Upper(req.state) \notin PaidStates}

WhHandle_MarksEveryState(req) ==
    LET v == VerifySignature(req.sig) IN
    /\ pc["wh"] = "idle"
    /\ req \in GatewayRequests => Truthful(req)
    /\ IF v = "reject" THEN
            /\ whResp' = Respond(403, req.sig)
            /\ pc' = [pc EXCEPT !["wh"] = "sent"]
            /\ UNCHANGED <<call, out, lock, hist>>
       ELSE IF v = "raise" \/ ~req.json \/ req.invoice_id = NoInvoice THEN
            /\ whResp' = Respond(400, req.sig)
            /\ pc' = [pc EXCEPT !["wh"] = "sent"]
            /\ UNCHANGED <<call, out, lock, hist>>
       ELSE
            /\ Invoke("wh", "mark_invoice_paid", "", req.invoice_id, 0)
            /\ whResp' = whResp
    /\ UNCHANGED <<payments, clock, sess, gw, env, fn, outputs, kit>>

\* intasend_webhook up to its response or its call of mark_invoice_paid
WhHandle(req) ==
    LET v == VerifySignature(req.sig) IN
    /\ pc["wh"] = "idle"
    /\ req \in GatewayRequests => Truthful(req)
    /\ IF v = "reject" THEN
            /\ whResp' = Respond(403, req.sig)
            /\ pc' = [pc EXCEPT !["wh"] = "sent"]
            /\ UNCHANGED <<call, out, lock, hist>>
       ELSE IF v = "raise" \/ ~req.json \/ req.invoice_id = NoInvoice THEN
            /\ whResp' = Respond(400, req.sig)
            /\ pc' = [pc EXCEPT !["wh"] = "sent"]
            /\ UNCHANGED <<call, out, lock, hist>>
       ELSE IF Upper(req.state) \in PaidStates THEN
            /\ Invoke("wh", "mark_invoice_paid", "", req.invoice_id, 0)
            /\ whResp' = whResp
       ELSE
            /\ whResp' = Respond(200, req.sig)
            /\ pc' = [pc EXCEPT !["wh"] = "sent"]
            /\ UNCHANGED <<call, out, lock, hist>>
    /\ UNCHANGED <<payments, clock, sess, gw, env, fn, outputs, kit>>

\* JSONResponse({"ok": True, "updated": updated, ...})
WhRespond ==
    /\ Returned("wh", "mark_invoice_paid")
    /\ whResp' = [code |-> 200, unsigned |-> FALSE]
    /\ pc' = [pc EXCEPT !["wh"] = "sent"]
    /\ Forget("wh")
    /\ UNCHANGED <<payments, clock, lock, sess, gw, env, fn, outputs, kit, hist>>

\* the response has gone out; the endpoint takes the next request
WhSent ==
    /\ pc["wh"] = "sent"
    /\ whResp' = NoResp
    /\ pc' = [pc EXCEPT !["wh"] = "idle"]
    /\ UNCHANGED <<payments, clock, lock, call, out, sess, gw, env, fn, outputs, kit, hist>>

\* ------------------------------------------- any caller of payments_db
\* the admin panel (is_user_paid, mark_user_paid), a test, a script: one
\* caller that calls the functions of payments_db with any arguments
Amounts == {0 - PremiumAmount, 0, PremiumAmount}

\* the users the caller grants access to by hand
GrantUsers == {"", SessionUser}

ApiCalls ==
    {[op |-> "create_payment", user_id |-> u, invoice_id |-> i, amount |-> a] :
        u \in Users, i \in GwInvoices \cup {NoInvoice}, a \in Amounts}
    \cup {[op |-> "mark_invoice_paid", user_id |-> "", invoice_id |-> i,
           amount |-> 0] : i \in GwInvoices \cup {NoInvoice}}
    \cup {[op |-> "is_user_paid", user_id |-> u, invoice_id |-> NoInvoice,
           amount |-> 0] : u \in Users}
    \cup {[op |-> "mark_user_paid", user_id |-> u, invoice_id |-> NoInvoice,
           amount |-> 0] : u \in GrantUsers}
    \cup {[op |-> "init_db", user_id |-> "", invoice_id |-> NoInvoice,
           amount |-> 0]}

ApiCall(c) ==
    /\ pc["api"] = "idle"
    /\ Invoke("api", c.op, c.user_id, c.invoice_id, c.amount)
    /\ UNCHANGED <<payments, clock, sess, gw, whResp, env, fn, outputs, kit>>

ApiDone ==
    /\ pc["api"] = "ret"
    /\ pc' = [pc EXCEPT !["api"] = "idle"]
    /\ Forget("api")
    /\ UNCHANGED <<payments, clock, lock, sess, gw, whResp, env, fn, outputs, kit, hist>>

\* ------------------------------------------------------------------ app.py
Clicks == {"none", "pay", "check"}

\* a script run starts (page load, rerun or a click): init_db() at the top
UiRun ==
    /\ pc["ui"] = "idle"
    /\ Invoke("ui", "init_db", "", NoInvoice, 0)
    /\ UNCHANGED <<payments, clock, sess, gw, whResp, env, fn, outputs, kit>>

\* init_db() raised: the run ends with Streamlit's error page
UiInitRaised ==
    /\ Returned("ui", "init_db")
    /\ out["ui"].raised
    /\ pc' = [pc EXCEPT !["ui"] = "idle"]
    /\ Forget("ui")
    /\ UNCHANGED <<payments, clock, lock, sess, gw, whResp, env, fn, outputs, kit, hist>>

\* init_db() returned; user_is_paid = is_user_paid(user_id)
UiAfterInit ==
    /\ Returned("ui", "init_db")
    /\ ~out["ui"].raised
    /\ Invoke("ui", "is_user_paid", SessionUser, NoInvoice, 0)
    /\ UNCHANGED <<payments, clock, sess, gw, whResp, env, fn, outputs, kit>>

PremiumDownloadSection_DownloadsAlways(has_content, user_is_paid) ==
    [preview |-> has_content, downloads |-> has_content,
     gate |-> has_content /\ ~user_is_paid]

\* premium_download_section: what it renders of a document (has_content:
\* markdown_content.strip() is not empty): the preview, the three download
\* buttons, the payment gate
PremiumDownloadSection(has_content, user_is_paid) ==
    [preview |-> has_content, downloads |-> has_content /\ user_is_paid,
     gate |-> has_content /\ ~user_is_paid]

\* where the script goes after user_is_paid is known, a document having
\* been generated: to the page with the download buttons, or to the payment
\* gate, whose buttons act only when clicked
AfterPaid(paid, click) ==
    LET page == PremiumDownloadSection(TRUE, paid) IN
    IF sess.waiting /\ paid THEN "idle"
    ELSE IF page.downloads THEN "downloads"
    ELSE IF page.gate /\ click = "pay" THEN "trigger"
    ELSE IF page.gate /\ click = "check" /\ sess.pending # NoInvoice
    THEN "status"
    ELSE "idle"

\* is_user_paid returned; "Payment confirmed! Refreshing..." + st.rerun()
\* when the session was waiting, else the script runs to the clicked button
UiAfterPaid(click) ==
    LET paid == out["ui"].val IN
    /\ Returned("ui", "is_user_paid")
    /\ sess' = IF sess.waiting /\ paid
               THEN [waiting |-> FALSE, pending |-> NoInvoice]
               ELSE sess
    /\ pc' = [pc EXCEPT !["ui"] = AfterPaid(paid, click)]
    /\ Forget("ui")
    /\ UNCHANGED <<payments, clock, lock, gw, whResp, env, fn, outputs, kit, hist>>

\* the page with the download buttons is on the screen; the run has ended
UiDownloadsShown ==
    /\ pc["ui"] = "downloads"
    /\ pc' = [pc EXCEPT !["ui"] = "idle"]
    /\ UNCHANGED <<payments, clock, lock, call, out, sess, gw, whResp, env, fn,
                   outputs, kit, hist>>

\* render_payment_gate, the "Pay KES ..." button: the message shown, the
\* charge request made, and the phone and invoice id given to create_payment
\* (NoInvoice: create_payment is not called)
PayClick(phone, cfg, reply) ==
    LET nothing == [request |-> ChargeRequest(FALSE, <<>>, 0),
                    phone |-> <<>>, invoice_id |-> NoInvoice]
        cleaned_phone == CleanPhone(phone)
        invoice_id == TriggerMpesaPayment(cfg, reply)
    IN  IF phone = <<>> THEN [msg |-> "enter_phone"] @@ nothing
        ELSE IF ~IsValidKenyanPhone(cleaned_phone)
        THEN [msg |-> "invalid_phone"] @@ nothing
        ELSE IF invoice_id = NoInvoice
        THEN [msg |-> "push_error",
              request |-> ChargeRequest(cfg, cleaned_phone, PremiumAmount)]
             @@ nothing
        ELSE [msg |-> "sent",
              request |-> ChargeRequest(cfg, cleaned_phone, PremiumAmount),
              phone |-> cleaned_phone, invoice_id |-> invoice_id]

\* "Pay KES ...": st.error for a missing or invalid phone, before any
\* request is made; the script run ends
UiPhoneError(phone) ==
    /\ pc["ui"] = "trigger"
    /\ PayClick(phone, HasConfig("main"), CHOOSE r \in PushReplies : TRUE).msg
            \in {"enter_phone", "invalid_phone"}
    /\ pc' = [pc EXCEPT !["ui"] = "idle"]
    /\ UNCHANGED <<payments, clock, lock, call, out, sess, gw, whResp, env, fn,
                   outputs, kit, hist>>

\* "Pay KES ...": trigger_mpesa_payment returned None and
\* st.error("Unable to initiate ...") is on the page
UiPayFails(phone, reply) ==
    /\ pc["ui"] = "trigger"
    /\ PayClick(phone, HasConfig("main"), reply).msg = "push_error"
    /\ pc' = [pc EXCEPT !["ui"] = "push_error"]
    /\ UNCHANGED <<payments, clock, lock, call, out, sess, gw, whResp, env, fn,
                   outputs, kit, hist>>

\* the script run that showed "Unable to initiate ..." ends
UiErrorShown ==
    /\ pc["ui"] = "push_error"
    /\ pc' = [pc EXCEPT !["ui"] = "idle"]
    /\ UNCHANGED <<payments, clock, lock, call, out, sess, gw, whResp, env, fn, outputs, kit,
                   hist>>

\* trigger_mpesa_payment returned an invoice id (of a new invoice, or of one
\* the gateway had issued before); create_payment(...) follows
UiPayAccepted(phone, reply) ==
    LET click == PayClick(phone, HasConfig("main"), reply)
        inv == click.invoice_id
    IN
    /\ pc["ui"] = "trigger"
    /\ click.msg = "sent"
    /\ gw' = IF reply.kind = "accepted"
             THEN [gw EXCEPT ![inv] = IF @ = "NONE" THEN "PENDING" ELSE @]
             ELSE gw
    /\ Invoke("ui", "create_payment", SessionUser, inv, PremiumAmount)
    /\ UNCHANGED <<payments, clock, sess, whResp, env, fn, outputs, kit>>

\* create_payment returned (its result is not looked at)
UiAfterCreate ==
    /\ Returned("ui", "create_payment")
    /\ sess' = [sess EXCEPT !.waiting = TRUE, !.pending = call["ui"].invoice_id]
    /\ pc' = [pc EXCEPT !["ui"] = "idle"]
    /\ Forget("ui")
    /\ UNCHANGED <<payments, clock, lock, gw, whResp, env, fn, outputs, kit, hist>>

\* "I have paid - Check Status": check_payment_status said True
UiCheckPaid(reply) ==
    /\ pc["ui"] = "status"
    /\ IsStatusReply(sess.pending, reply)
    /\ CheckPaymentStatus(HasConfig("main"), reply) = "True"
    /\ Invoke("ui", "mark_invoice_paid", "", sess.pending, 0)
    /\ UNCHANGED <<payments, clock, sess, gw, whResp, env, fn, outputs, kit>>

\* "I have paid - Check Status": check_payment_status said False or None
UiCheckNotPaid(reply) ==
    /\ pc["ui"] = "status"
    /\ IsStatusReply(sess.pending, reply)
    /\ CheckPaymentStatus(HasConfig("main"), reply) # "True"
    /\ pc' = [pc EXCEPT !["ui"] = "idle"]
    /\ UNCHANGED <<payments, clock, lock, call, out, sess, gw, whResp, env, fn, outputs, kit,
                   hist>>

\* mark_invoice_paid returned (result not looked at); flags reset, st.rerun()
UiAfterMark ==
    /\ Returned("ui", "mark_invoice_paid")
    /\ sess' = [sess EXCEPT !.waiting = FALSE, !.pending = NoInvoice]
    /\ pc' = [pc EXCEPT !["ui"] = "idle"]
    /\ Forget("ui")
    /\ UNCHANGED <<payments, clock, lock, gw, whResp, env, fn, outputs, kit, hist>>

\* ------------------------------------------------------------- environment
\* the customer approves or declines the STK push
GwSettle(inv, st) ==
    /\ gw[inv] = "PENDING"
    /\ gw' = [gw EXCEPT ![inv] = st]
    /\ UNCHANGED <<payments, clock, lock, pc, call, out, sess, whResp,
                   env, fn, outputs, kit, hist>>

Tick ==
    /\ clock < MaxClock
    /\ clock' = clock + 1
    /\ UNCHANGED <<payments, lock, pc, call, out, sess, gw, whResp, env, fn, outputs, kit,
                   hist>>

\* ------------------------------------------------------------ specification
\* after import of payments_db (init_db on a new file) in every process
Init ==
    /\ payments = {}
    /\ clock = 0
    /\ lock = [p \in Procs |-> NoThread]
    /\ pc = [t \in Threads |-> "idle"]
    /\ call = [t \in Threads |-> NoCall]
    /\ out = [t \in Threads |-> NoOut]
    /\ sess = [waiting |-> FALSE, pending |-> NoInvoice]
    /\ gw = [i \in GwInvoices |-> "NONE"]
    /\ whResp = NoResp
    /\ env \in [key : BOOLEAN, secret : BOOLEAN, deploy : Deployments]
    /\ env.deploy = "single" => env.secret = env.key
    /\ fn = NoFn
    /\ outputs = NoOutputs
    /\ kit = NoKit
    /\ hist = [i \in GwInvoices |-> [trues |-> 0, failed |-> FALSE]]

\* the application: one UI session and the webhook endpoint
Next ==
    \/ \E t \in {"ui", "wh"} : Exec(t)
    \/ \E t \in {"ui", "wh"} : ExecFail(t)
    \/ \E req \in Requests : WhHandle(req)
    \/ WhRespond
    \/ WhSent
    \/ UiRun
    \/ UiInitRaised
    \/ UiAfterInit
    \/ \E c \in Clicks : UiAfterPaid(c)
    \/ UiDownloadsShown
    \/ \E p \in PhoneInputs : UiPhoneError(p)
    \/ \E p \in PhoneInputs, r \in PushReplies : UiPayFails(p, r)
    \/ UiErrorShown
    \/ \E p \in PhoneInputs, r \in PushReplies : UiPayAccepted(p, r)
    \/ UiAfterCreate
    \/ \E r \in StateReplies : UiCheckPaid(r)
    \/ \E r \in StateReplies : UiCheckNotPaid(r)
    \/ UiAfterMark
    \/ \E i \in GwInvoices, st \in {"PAID", "FAILED"} : GwSettle(i, st)
    \/ Tick

Spec == Init /\ [][Next]_vars

\* the ledger module under any sequence of calls
NextApi ==
    \/ Exec("api")
    \/ ExecUpdateNone("api")
    \/ ExecInsertManual("api")
    \/ ExecFail("api")
    \/ \E c \in ApiCalls : ApiCall(c)
    \/ ApiDone
    \/ Tick

\* the caller runs in the app's process; the gateway is not involved
InitApi ==
    /\ Init
    /\ env = [key |-> TRUE, secret |-> TRUE, deploy |-> "single"]

SpecApi == InitApi /\ [][NextApi]_vars

\* ------------------------------------------- the session and the listener
\* under fair scheduling: the webhook server runs as its own service, key and
\* secret are configured
InitLive ==
    /\ Init
    /\ env = [key |-> TRUE, secret |-> TRUE, deploy |-> "split"]

\* a thread inside a store call or between two statements of a handler is
\* scheduled again; clicks, page loads, webhooks and the customer's decision
\* come when they come
Progress ==
    /\ \A t \in {"ui", "wh"} : WF_vars(Exec(t))
    /\ WF_vars(WhRespond) /\ WF_vars(WhSent)
    /\ WF_vars(UiAfterInit) /\ WF_vars(UiAfterCreate) /\ WF_vars(UiAfterMark)

SpecLive == InitLive /\ [][Next]_vars /\ Progress

\* no store call has met an exception
StoreOk == \A t \in Threads : ~out[t].err /\ ~out[t].raised

\* a confirmation of a paid invoice has started: mark_invoice_paid called
\* by the webhook handler (the signature matched, the state was a paid one)
\* or by the status check (check_payment_status returned True)
TriggerFired ==
    \E t \in {"ui", "wh"} :
        /\ pc[t] = "body" /\ call[t].op = "mark_invoice_paid"
        /\ gw[call[t].invoice_id] = "PAID"

\* ------------------------------------ two threads of the app's process
\* a session's script run (init_db, is_user_paid) while another thread of
\* the same process calls the ledger functions: both go through the one
\* _db_lock
LockCalls ==
    {c \in ApiCalls :
        /\ c.user_id \in {"", SessionUser}
        /\ c.invoice_id \in {NoInvoice, GwInvoice(1)}
        /\ c.amount \in {0, PremiumAmount}}

NextLock ==
    \/ \E t \in {"ui", "api"} : Exec(t)
    \/ ExecUpdateNone("api")
    \/ ExecInsertManual("api")
    \/ \E t \in {"ui", "api"} : ExecFail(t)
    \/ \E c \in LockCalls : ApiCall(c)
    \/ ApiDone
    \/ UiRun
    \/ UiInitRaised
    \/ UiAfterInit
    \/ UiAfterPaid("none")
    \/ UiDownloadsShown
    \/ Tick

\* the statement a thread is executing ends: it returns or it raises (the
\* busy_timeout and the connect timeout bound the wait for the database)
StatementEnds(t) ==
    Exec(t) \/ ExecUpdateNone(t) \/ ExecInsertManual(t) \/ ExecFail(t)

SpecLock ==
    InitApi /\ [][NextLock]_vars /\ \A t \in {"ui", "api"} : WF_vars(StatementEnds(t))

\* ------------------------------------------ app.py, the Setup tab's button
\* "Analyze Job & Generate Kit" clicked in a run whose is_user_paid returned
\* user_is_paid: the message shown, analysis_uses afterwards and the
\* generation steps that returned.  fail_at is the step that raises
\* (1 analyze_job, 2 rewrite_resume, 3 generate_cover_letter,
\* 4 generate_emails), 0 when every step returns
AnalyzeButton_LimitOffByOne(analysis_uses, user_is_paid, has_resume, has_job, fail_at) ==
    IF ~user_is_paid /\ analysis_uses > FreeLimit
    THEN [msg |-> "limit", analysis_uses |-> analysis_uses, steps |-> 0]
    ELSE IF ~has_resume
    THEN [msg |-> "no_resume", analysis_uses |-> analysis_uses, steps |-> 0]
    ELSE IF ~has_job
    THEN [msg |-> "no_job", analysis_uses |-> analysis_uses, steps |-> 0]
    ELSE IF fail_at # 0
    THEN [msg |-> "error", analysis_uses |-> analysis_uses,
          steps |-> fail_at - 1]
    ELSE [msg |-> "done", analysis_uses |-> analysis_uses + 1, steps |-> 4]

AnalyzeButton(analysis_uses, user_is_paid, has_resume, has_job, fail_at) ==
    IF ~user_is_paid /\ analysis_uses >= FreeLimit
    THEN [msg |-> "limit", analysis_uses |-> analysis_uses, steps |-> 0]
    ELSE IF ~has_resume
    THEN [msg |-> "no_resume", analysis_uses |-> analysis_uses, steps |-> 0]
    ELSE IF ~has_job
    THEN [msg |-> "no_job", analysis_uses |-> analysis_uses, steps |-> 0]
    ELSE IF fail_at # 0
    THEN [msg |-> "error", analysis_uses |-> analysis_uses,
          steps |-> fail_at - 1]
    ELSE [msg |-> "done", analysis_uses |-> analysis_uses + 1, steps |-> 4]

\* a script run in which the button was clicked
AnalyzeClick(user_is_paid, has_resume, has_job, fail_at) ==
    LET r == AnalyzeButton(kit.analysis_uses, user_is_paid, has_resume,
                           has_job, fail_at)
    IN  /\ kit.analysis_uses < MaxUses
        /\ kit' = [analysis_uses |-> r.analysis_uses,
                   free |-> IF r.msg = "done" /\ ~user_is_paid
                            THEN kit.free + 1 ELSE kit.free,
                   last |-> [msg |-> r.msg, paid |-> user_is_paid,
                             steps |-> r.steps]]
        /\ UNCHANGED <<payments, clock, lock, pc, call, out, sess, gw, whResp,
                       env, fn, outputs, hist>>

\* init_state() in a new browser session: analysis_uses = 0
NewSession ==
    /\ kit # NoKit
    /\ kit' = NoKit
    /\ UNCHANGED <<payments, clock, lock, pc, call, out, sess, gw, whResp,
                   env, fn, outputs, hist>>

NextKit ==
    \/ \E paid, has_resume, has_job \in BOOLEAN, fail_at \in 0..4 :
          AnalyzeClick(paid, has_resume, has_job, fail_at)
    \/ NewSession

SpecKit == InitApi /\ [][NextKit]_vars

\* ------------------------------------- the functions applied to arguments
Subscribers == {Subscriber, <<"1", "0", "0", "2", "5", "4", "0", "0", "7">>}

\* the accepted ways to write subscriber number n
Spellings(n) ==
    LET plain == {Trunk(n), n, Country(n), Plus(Country(n))} IN
    plain \cup {Grouped(w, sep) : w \in plain, sep \in {" ", "-"}}

\* texts that are no phone number: nothing, letters, too few digits, a
\* landline with its trunk zero, a country code with too few digits, too
\* many digits
NoPhones ==
    {<<>>, <<"a", "b", "c">>, <<"1", "2", "3", "4", "5">>,
     <<"0", "2", "0", "1", "2", "3", "4", "5", "6", "7">>,
     <<"2", "5", "4", "7", "1">>,
     Trunk(Trunk(Subscriber)), Subscriber \o Subscriber}

FnPhones == UNION {Spellings(n) : n \in Subscribers} \cup NoPhones

\* trigger_mpesa_payment(phone_number, amount) called by anyone
ApplyTrigger(cfg, phone, amount, reply) ==
    /\ fn = NoFn
    /\ fn' = [f |-> "trigger_mpesa_payment", cfg |-> cfg, phone |-> phone,
              amount |-> amount, reply |-> reply,
              request |-> ChargeRequest(cfg, phone, amount),
              res |-> TriggerMpesaPayment(cfg, reply)]
    /\ UNCHANGED <<payments, clock, lock, pc, call, out, sess, gw, whResp,
                   env, outputs, kit, hist>>

\* check_payment_status(invoice_id) against one answer of the gateway
ApplyCheckStatus(cfg, reply) ==
    /\ fn = NoFn
    /\ fn' = [f |-> "check_payment_status", cfg |-> cfg, reply |-> reply,
              res |-> CheckPaymentStatus(cfg, reply)]
    /\ UNCHANGED <<payments, clock, lock, pc, call, out, sess, gw, whResp, env,
                   outputs, kit, hist>>

\* app.py get_or_create_user_id: st.session_state["user_id"] if set, else
\* the user_id query parameter of the URL if set, else str(uuid.uuid4());
\* "" is an unset value.  Phone and email are no input of it
GetOrCreateUserId(session_uid, query_uid, uuid) ==
    IF session_uid # "" THEN session_uid
    ELSE IF query_uid # "" THEN query_uid
    ELSE uuid

\* one person, one (phone, email) pair, opens the application in two new
\* sessions (q1, q2: the user_id in the URL opened; a, b: what uuid4 draws)
ApplyResolve(q1, a, q2, b) ==
    /\ fn = NoFn
    /\ fn' = [f |-> "get_or_create_user_id", query |-> <<q1, q2>>,
              uuid |-> <<a, b>>,
              res |-> <<GetOrCreateUserId("", q1, a),
                        GetOrCreateUserId("", q2, b)>>]
    /\ UNCHANGED <<payments, clock, lock, pc, call, out, sess, gw, whResp, env,
                   outputs, kit, hist>>

\* normalize_phone(x), and normalize_phone of its result
ApplyNormalize(x) ==
    /\ fn = NoFn
    /\ fn' = [f |-> "normalize_phone", x |-> x, res |-> NormalizePhone(x),
              again |-> NormalizePhone(NormalizePhone(x))]
    /\ UNCHANGED <<payments, clock, lock, pc, call, out, sess, gw, whResp, env,
                   outputs, kit, hist>>

\* the "Pay KES ..." button pressed with a text in the phone field
ApplyPayClick(phone, cfg, reply) ==
    /\ fn = NoFn
    /\ fn' = [f |-> "pay_click", phone |-> phone, cfg |-> cfg, reply |-> reply,
              res |-> PayClick(phone, cfg, reply)]
    /\ UNCHANGED <<payments, clock, lock, pc, call, out, sess, gw, whResp, env,
                   outputs, kit, hist>>

\* ------------------------------------- payments_db.py, user_outputs
\* Python values that json.dumps accepts as one item of emails: t is the
\* Python type, v its strings in order (for a dict: key, value, key, ...;
\* "dict_intkeys" has int keys, v holding their decimal digits)
EmailItems ==
    {[t |-> "str", v |-> <<"Hi">>],
     [t |-> "dict", v |-> <<"subject", "Hi", "body", "Dear">>],
     [t |-> "list", v |-> <<"Hi", "Dear">>],
     [t |-> "tuple", v |-> <<"Hi", "Dear">>],
     [t |-> "dict_intkeys", v |-> <<"1", "Hi">>]}

EmailLists ==
    {<<>>} \cup {<<i>> : i \in EmailItems}
           \cup {<<i, j>> : i \in EmailItems, j \in EmailItems}

\* json.dumps(emails or [], ensure_ascii=False): the JSON text, as the
\* sequence of its values (string, array, object)
JsonDumps(emails) ==
    [k \in 1..Len(emails) |->
        [t |-> CASE emails[k].t = "str" -> "string"
                 [] emails[k].t \in {"list", "tuple"} -> "array"
                 [] OTHER -> "object",
         v |-> emails[k].v]]

\* json.loads(text): arrays are lists, objects are dicts with str keys
JsonLoads(text) ==
    [k \in 1..Len(text) |->
        [t |-> CASE text[k].t = "string" -> "str"
                 [] text[k].t = "array" -> "list"
                 [] OTHER -> "dict",
         v |-> text[k].v]]

OutputRow(user_id, resume, cover_letter, emails_json) ==
    [user_id |-> user_id, ai_resume_md |-> resume,
     ai_cover_letter |-> cover_letter, ai_emails_json |-> emails_json]

\* what user_outputs can hold before the call: nothing, or a row of u1
OutputTables ==
    {{}, {OutputRow("u1", "# Old", "", JsonDumps(<<>>))}}

SaveUserOutput_InsertOrIgnore(table, user_id, resume, cover_letter, emails, ok) ==
    IF user_id = "" \/ ~ok THEN [val |-> FALSE, table |-> table]
    ELSE [val |-> TRUE,
          table |-> IF \E r \in table : r.user_id = user_id THEN table
                    ELSE table \cup {OutputRow(user_id, resume, cover_letter,
                                               JsonDumps(emails))}]

\* save_user_output: the value returned and user_outputs afterwards; ok is
\* FALSE when the store raises
SaveUserOutput(table, user_id, resume, cover_letter, emails, ok) ==
    IF user_id = "" \/ ~ok THEN [val |-> FALSE, table |-> table]
    ELSE [val |-> TRUE,
          table |-> {r \in table : r.user_id # user_id}
                    \cup {OutputRow(user_id, resume, cover_letter,
                                    JsonDumps(emails))}]

\* load_user_output: found = FALSE is None
LoadUserOutput(table, user_id, ok) ==
    IF user_id = "" \/ ~ok \/ ~\E r \in table : r.user_id = user_id
    THEN [found |-> FALSE, ai_resume_markdown |-> "", ai_cover_letter |-> "",
          ai_emails |-> <<>>]
    ELSE LET row == CHOOSE r \in table : r.user_id = user_id IN
         [found |-> TRUE, ai_resume_markdown |-> row.ai_resume_md,
          ai_cover_letter |-> row.ai_cover_letter,
          ai_emails |-> JsonLoads(row.ai_emails_json)]

\* save_user_output(...) and, right after it, load_user_output(user_id)
ApplySaveLoad(table, user_id, resume, cover_letter, emails, ok1, ok2) ==
    LET saved == SaveUserOutput(table, user_id, resume, cover_letter, emails,
                                ok1)
    IN  /\ fn = NoFn
        /\ fn' = [f |-> "save_load", before |-> table, user_id |-> user_id,
                  resume |-> resume, cover_letter |-> cover_letter,
                  emails |-> emails, saved |-> saved.val,
                  load_ok |-> ok2,
                  loaded |-> LoadUserOutput(saved.table, user_id, ok2)]
        /\ UNCHANGED <<payments, clock, lock, pc, call, out, sess, gw, whResp,
                       env, outputs, kit, hist>>

\* the caller has the result; the next call can be made
FnReturn ==
    /\ fn # NoFn
    /\ fn' = NoFn
    /\ UNCHANGED <<payments, clock, lock, pc, call, out, sess, gw, whResp, env,
                   outputs, kit, hist>>

NextFn ==
    \/ FnReturn
    \/ \E cfg \in BOOLEAN, p \in FnPhones, a \in Amounts, r \in PushReplies :
          ApplyTrigger(cfg, p, a, r)
    \/ \E cfg \in BOOLEAN, r \in WireReplies : ApplyCheckStatus(cfg, r)
    \/ \E x \in FnPhones : ApplyNormalize(x)
    \/ \E cfg \in BOOLEAN, p \in FnPhones, r \in PushReplies :
          ApplyPayClick(p, cfg, r)
    \/ \E tb \in OutputTables, u \in Users, r \in {"", "# CV"},
          c \in {"", "Dear"}, e \in EmailLists, ok1, ok2 \in BOOLEAN :
          ApplySaveLoad(tb, u, r, c, e, ok1, ok2)
    \/ \E q1, q2 \in Users, a, b \in Users \ {""} : ApplyResolve(q1, a, q2, b)

SpecFn == InitApi /\ [][NextFn]_vars

\* ------------------------------------------------ the artifact cache
\* save_user_output(user_id, resume, cover_letter, emails) by any caller;
\* history: what the user's last save that returned True was given, and how
\* many there were (counted to 2)
SaveOutput(user_id, resume, cover_letter, emails, ok) ==
    LET s == SaveUserOutput(outputs.rows, user_id, resume, cover_letter,
                            emails, ok)
    IN  /\ fn = NoFn
        /\ fn' = [f |-> "save_user_output", user_id |-> user_id,
                  res |-> s.val]
        /\ outputs' =
              [rows |-> s.table,
               last |-> IF s.val
                        THEN [outputs.last EXCEPT ![user_id] =
                                [n |-> Bump(@.n), resume |-> resume,
                                 cover_letter |-> cover_letter,
                                 emails |-> emails]]
                        ELSE outputs.last]
        /\ UNCHANGED <<payments, clock, lock, pc, call, out, sess, gw, whResp,
                       env, kit, hist>>

\* load_user_output(user_id) by any caller
LoadOutput(user_id, ok) ==
    /\ fn = NoFn
    /\ fn' = [f |-> "load_user_output", user_id |-> user_id, ok |-> ok,
              res |-> LoadUserOutput(outputs.rows, user_id, ok)]
    /\ UNCHANGED <<payments, clock, lock, pc, call, out, sess, gw, whResp, env,
                   outputs, kit, hist>>

\* emails as the application produces them: a list of dicts with str keys
CacheEmails == {<<>>, <<[t |-> "dict", v |-> <<"subject", "Hi">>]>>}

NextCache ==
    \/ \E u \in Users, r \in {"", "# CV"}, c \in {"", "Dear"},
          e \in CacheEmails, ok \in BOOLEAN : SaveOutput(u, r, c, e, ok)
    \/ \E u \in Users, ok \in BOOLEAN : LoadOutput(u, ok)
    \/ FnReturn

SpecCache == InitApi /\ [][NextCache]_vars

\* ====================================================== properties
RowsOf(rows, invoice_id) == {r \in rows : r.invoice_id = invoice_id}
Pending(rows, invoice_id) == \E r \in RowsOf(rows, invoice_id) : r.is_paid = 0
Confirmed(rows, invoice_id) == \E r \in RowsOf(rows, invoice_id) : r.is_paid = 1
Entitled(rows, user_id) == \E r \in rows : r.user_id = user_id /\ r.is_paid = 1

\* thread t executes the statement of op without a store error in this step
Completes(t, op) ==
    /\ pc[t] = "body" /\ call[t].op = op
    /\ pc'[t] = "ret" /\ ~out'[t].err

\* C1: a mark_invoice_paid call that finds the invoice pending performs the
\* transition (is_paid = 1, paid_at = its timestamp) and returns True, and it
\* is the only call for that invoice that ever returns True; a call that
\* finds the invoice confirmed returns False and leaves the table as it is
C1_OneTransitionPerInvoice ==
    /\ [](\A i \in GwInvoices :
            /\ hist[i].trues <= 1
            /\ Confirmed(payments, i) <=> hist[i].trues = 1)
    /\ [][\A t \in {"ui", "wh"} : Completes(t, "mark_invoice_paid") =>
            LET i == call[t].invoice_id IN
            /\ Pending(payments, i) =>
                  /\ out'[t].val
                  /\ \A r \in RowsOf(payments', i) :
                        r.is_paid = 1 /\ r.paid_at = call[t].now
            /\ ~Pending(payments, i) =>
                  ~out'[t].val /\ payments' = payments]_vars

\* C1 witness: a later call for a confirmed invoice returned False and the
\* row still carries the earlier timestamp
C1_Witness ==
    \E t \in {"ui", "wh"} :
        /\ Returned(t, "mark_invoice_paid")
        /\ ~out[t].val /\ ~out[t].err
        /\ hist[call[t].invoice_id].trues = 1
        /\ \E r \in RowsOf(payments, call[t].invoice_id) :
              r.is_paid = 1 /\ r.paid_at < call[t].now

\* C2: when the webhook handler and the status poll both call
\* mark_invoice_paid for the same invoice and neither meets a store error,
\* no call raises, at most one returns True, exactly one does when the
\* invoice was pending as each of them entered the store, and once either
\* has completed the row is confirmed and the user's entitlement query is
\* true
BothReturned(i) ==
    \A t \in {"ui", "wh"} :
        /\ Returned(t, "mark_invoice_paid")
        /\ call[t].invoice_id = i /\ ~out[t].err

C2_ConcurrentConfirmations ==
    /\ [](\A t \in {"ui", "wh"} :
            call[t].op = "mark_invoice_paid" => ~out[t].raised)
    /\ [](\A i \in GwInvoices : BothReturned(i) =>
            /\ ~(out["ui"].val /\ out["wh"].val)
            /\ (call["ui"].pend /\ call["wh"].pend) =>
                  (out["ui"].val \/ out["wh"].val))
    /\ [][\A t \in {"ui", "wh"} : Completes(t, "mark_invoice_paid") =>
            \A r \in RowsOf(payments', call[t].invoice_id) :
                /\ r.is_paid = 1 /\ r.paid_at # Null
                /\ IsUserPaidSelect(payments', r.user_id) # {}]_vars

\* C2 witness: both calls started while the invoice was pending, both have
\* returned, and exactly one of them reports the transition
C2_Witness ==
    \E i \in GwInvoices :
        /\ BothReturned(i)
        /\ call["ui"].pend /\ call["wh"].pend
        /\ out["ui"].val # out["wh"].val
        /\ Confirmed(payments, i)

\* C3: an is_user_paid call that meets no store error returns True exactly
\* when the ledger holds a row of that user with is_paid = 1 (an empty
\* user_id has none), and create_payment never takes the entitlement of a
\* user away
C3_EntitledIffPaidRow ==
    /\ [][\A t \in Threads :
            (pc[t] # "ret" /\ pc'[t] = "ret"
                /\ call'[t].op = "is_user_paid" /\ ~out'[t].err) =>
            (out'[t].val <=>
                \E r \in payments : r.user_id = call'[t].user_id /\ r.is_paid = 1)]_vars
    /\ [][\A t \in Threads : Completes(t, "create_payment") =>
            \A u \in Users : Entitled(payments, u) => Entitled(payments', u)]_vars

\* C3 witness: the query returned True for a user who holds a confirmed row
\* and a further unpaid intent
C3_Witness ==
    \E t \in Threads :
        /\ Returned(t, "is_user_paid") /\ out[t].val
        /\ \E r \in payments : r.user_id = call[t].user_id /\ r.is_paid = 0
        /\ \E r \in payments : r.user_id = call[t].user_id /\ r.is_paid = 1

\* C4: no step changes a row whose is_paid is 1, and the only change a step
\* makes to an existing row is the one from is_paid = 0 to is_paid = 1
C4_ConfirmedIsTerminal ==
    [][\A r \in payments :
          \/ r \in payments'
          \/ /\ r.is_paid = 0
             /\ \E q \in payments' :
                   /\ q.is_paid = 1 /\ q.paid_at # Null
                   /\ q = [r EXCEPT !.is_paid = 1, !.paid_at = q.paid_at]]_vars

\* C4 witness: mark_user_paid returned for a user whose gateway invoice was
\* confirmed at an earlier time, and the row still carries that time
C4_Witness ==
    \E t \in Threads :
        /\ Returned(t, "mark_user_paid") /\ ~out[t].err
        /\ \E r \in payments :
              /\ r.user_id = call[t].user_id /\ r.invoice_id \in GwInvoices
              /\ r.is_paid = 1 /\ r.paid_at < call[t].now

\* C5: no step removes an invoice from the ledger, and a user who holds a
\* confirmed row holds one after every step
C5_EntitlementIsPermanent ==
    [][/\ \A r \in payments : RowsOf(payments', r.invoice_id) # {}
       /\ \A u \in Users : Entitled(payments, u) => Entitled(payments', u)]_vars

\* C5 witness: create_payment was called again for an invoice that is
\* confirmed, and the confirmed row is still there
C5_Witness ==
    \E t \in Threads :
        /\ Returned(t, "create_payment") /\ ~out[t].err /\ ~out[t].val
        /\ Confirmed(payments, call[t].invoice_id)
        /\ Entitled(payments, call[t].user_id)

\* C6: when mark_user_paid reaches its INSERT for a user who has no row at
\* all and meets no store error, the step adds exactly one row, which
\* belongs to that user and is confirmed (is_paid = 1, paid_at set,
\* amount > 0); the call returns True and the entitlement query for the
\* user is true on the resulting ledger
C6_ManualGrantInsertsOneRow ==
    [][\A t \in Threads :
          (/\ pc[t] = "body2" /\ pc'[t] = "ret" /\ ~out'[t].err
           /\ \A r \in payments : r.user_id # call[t].user_id) =>
          /\ out'[t].val
          /\ \E r \in payments' \ payments :
                /\ payments' = payments \cup {r}
                /\ r.user_id = call[t].user_id
                /\ r.is_paid = 1 /\ r.paid_at \in Times /\ r.amount > 0
          /\ IsUserPaidSelect(payments', call[t].user_id) # {}]_vars

\* C6 witness: mark_user_paid returned True and the user's only row is the
\* confirmed manual one
C6_Witness ==
    \E t \in Threads :
        /\ Returned(t, "mark_user_paid") /\ out[t].val
        /\ \E r \in payments :
              /\ {q \in payments : q.user_id = call[t].user_id} = {r}
              /\ r.invoice_id \notin GwInvoices /\ r.is_paid = 1

\* C9: every row is either pending (is_paid = 0 and paid_at NULL) or
\* confirmed (is_paid = 1 and paid_at a timestamp); no other combination
\* is ever stored
C9_PendingOrConfirmed ==
    \A r \in payments :
        \/ r.is_paid = 0 /\ r.paid_at = Null
        \/ r.is_paid = 1 /\ r.paid_at \in Times

\* C9 witness: the ledger holds a pending row and a row confirmed with a
\* timestamp
C9_Witness ==
    /\ \E r \in payments : r.is_paid = 0 /\ r.paid_at = Null
    /\ \E r \in payments : r.is_paid = 1 /\ r.paid_at \in Times

\* C10: a store error inside mark_invoice_paid or mark_user_paid makes the
\* call return False without raising, leaves every row as it was and the
\* lock free; a later call that meets no error confirms what is pending,
\* whether or not an earlier attempt failed
C10_FailureLeavesLedgerUntouched ==
    /\ [][\A t \in Threads :
            (/\ pc[t] # "ret" /\ pc'[t] = "ret" /\ out'[t].err
             /\ call'[t].op \in {"mark_invoice_paid", "mark_user_paid"}) =>
            /\ payments' = payments
            /\ ~out'[t].val /\ ~out'[t].raised
            /\ lock'[Proc(t)] = NoThread]_vars
    /\ [][\A t \in Threads : Completes(t, "mark_invoice_paid") =>
            (Pending(payments, call[t].invoice_id) =>
                /\ out'[t].val
                /\ ~Pending(payments', call[t].invoice_id)
                /\ Confirmed(payments', call[t].invoice_id))]_vars
    /\ [][\A t \in Threads :
            (/\ call[t].op = "mark_user_paid" /\ pc[t] \in {"body", "body2"}
             /\ pc'[t] = "ret" /\ ~out'[t].err) =>
            /\ out'[t].val
            /\ \A r \in payments' : r.user_id = call[t].user_id => r.is_paid = 1]_vars

\* C10 witness: an attempt for the invoice failed, and the call that has
\* just returned True confirmed it
C10_Witness ==
    \E t \in Threads :
        /\ Returned(t, "mark_invoice_paid") /\ out[t].val
        /\ hist[call[t].invoice_id].failed
        /\ hist[call[t].invoice_id].trues = 1
        /\ Confirmed(payments, call[t].invoice_id)

\* C7: with a webhook secret configured, a request whose signature header is
\* missing or does not match is answered 403 without any store operation:
\* no row changes and mark_invoice_paid is not entered
C7_BadSignatureIs403 ==
    [][(whResp' # whResp /\ whResp'.unsigned) =>
          /\ whResp'.code = 403
          /\ payments' = payments
          /\ pc'["wh"] = "sent" /\ call'["wh"] = NoCall]_vars

\* C8: once the gateway has accepted an invoice and the customer has paid
\* it, every confirmation processed for that invoice (webhook delivery, or
\* status poll followed by mark_invoice_paid) finds the invoice's row in
\* the ledger
C8_ConfirmationFindsRow ==
    [][\A t \in {"ui", "wh"} :
          (/\ Completes(t, "mark_invoice_paid")
           /\ call[t].invoice_id \in GwInvoices
           /\ gw[call[t].invoice_id] = "PAID") =>
          RowsOf(payments, call[t].invoice_id) # {}]_vars

\* C11: every row has amount > 0 and is_paid in {0, 1}, and a create_payment
\* call with amount <= 0 returns False and leaves the table as it was
C11_StoreConstraints ==
    /\ [](\A r \in payments : r.amount > 0 /\ r.is_paid \in {0, 1})
    /\ [][\A t \in Threads :
            (/\ pc[t] # "ret" /\ pc'[t] = "ret"
             /\ call'[t].op = "create_payment" /\ call'[t].amount <= 0) =>
            (payments' = payments /\ ~out'[t].val)]_vars

\* C11 witness: create_payment with a negative amount for a user and an
\* invoice the table does not hold reached the INSERT, met no store error
\* and returned False
C11_Witness ==
    \E t \in Threads :
        /\ Returned(t, "create_payment") /\ ~out[t].err /\ ~out[t].val
        /\ call[t].amount < 0 /\ call[t].user_id # ""
        /\ call[t].invoice_id \in GwInvoices
        /\ RowsOf(payments, call[t].invoice_id) = {}

\* C12: trigger_mpesa_payment sends no charge request for an amount <= 0 and
\* returns no invoice for it
C12_NoChargeForNonPositiveAmount ==
    (fn.f = "trigger_mpesa_payment" /\ fn.amount <= 0) =>
        (~fn.request.sent /\ fn.res = NoInvoice)

\* C13: when trigger_mpesa_payment returns None the pay click leaves the
\* ledger, the session and the gateway as they were and starts no ledger
\* call, and create_payment is started only for an invoice the gateway
\* accepted
C13_FailedChargeChangesNothing ==
    /\ [][(pc["ui"] = "trigger" /\ pc'["ui"] = "push_error") =>
            (UNCHANGED <<payments, sess, gw, lock>> /\ call'["ui"] = NoCall)]_vars
    /\ [][(pc["ui"] = "trigger" /\ call'["ui"].op = "create_payment") =>
            (HasConfig("main") /\ gw'[call'["ui"].invoice_id] # "NONE")]_vars

\* C13 witness: with the keys configured and a valid phone, the charge
\* failed at the gateway; no row, no pending invoice, not waiting
C13_Witness ==
    /\ pc["ui"] = "push_error" /\ HasConfig("main")
    /\ payments = {} /\ sess = [waiting |-> FALSE, pending |-> NoInvoice]

\* C14: check_payment_status always answers True, False or None: True
\* exactly when the call went through and the upper-cased state (or, without
\* one, status) is PAID, COMPLETED or SUCCESS; False exactly when it is
\* FAILED, CANCELLED or DECLINED; None in every other case, errors included;
\* and the ledger is as it was
C14_StatusCheckIsTotal ==
    /\ [](fn.f = "check_payment_status" =>
            LET ok == fn.cfg /\ fn.reply.kind = "ok"
                word == Upper(IF fn.reply.state = "" THEN fn.reply.status
                              ELSE fn.reply.state)
            IN  /\ fn.res \in {"True", "False", "None"}
                /\ fn.res = "True" <=>
                      (ok /\ word \in {"PAID", "COMPLETED", "SUCCESS"})
                /\ fn.res = "False" <=>
                      (ok /\ word \in {"FAILED", "CANCELLED", "DECLINED"}))
    /\ [][fn'.f = "check_payment_status" => payments' = payments]_vars

\* C14 witness: a lower-case "paid" in the status key, no state key: True
C14_Witness ==
    /\ fn.f = "check_payment_status" /\ fn.res = "True"
    /\ fn.reply.state = "" /\ fn.reply.status = "paid"

\* C15: no two callers are at the same time between getting a connection
\* from get_connection and giving it back, whether the webhook listener is a
\* thread of the application or a process of its own
C15_CallersAreSerialized ==
    \A t, u \in Threads :
        (pc[t] \in {"body", "body2"} /\ pc[u] \in {"body", "body2"}) => t = u

C17_SamePairSameUserId ==
    fn.f = "get_or_create_user_id" => fn.res[1] = fn.res[2]

\* C18: normalize_phone maps every accepted spelling of a subscriber number
\* (trunk zero, bare nine digits, 254, +254, with or without spaces or
\* dashes) to 254 followed by the nine digits, and normalizing its result
\* again changes nothing, whatever the input
C18_CanonicalAndIdempotent ==
    fn.f = "normalize_phone" =>
        /\ \A n \in Subscribers :
              fn.x \in Spellings(n) => fn.res = <<"2", "5", "4">> \o n
        /\ fn.again = fn.res

\* C18 witness: "0712 345 678"-like input came out as 254712345678
C18_Witness ==
    /\ fn.f = "normalize_phone"
    /\ fn.x = Grouped(Trunk(Subscriber), " ")
    /\ fn.res = <<"2", "5", "4">> \o Subscriber /\ fn.again = fn.res

\* x has no digits, or its digits are none of 07XXXXXXXX, 01XXXXXXXX,
\* 7XXXXXXXX, 1XXXXXXXX, 2547XXXXXXXX, 2541XXXXXXXX
Unparseable(x) ==
    LET d == SelectSeq(x, IsDigit) IN
    ~ \/ Len(d) = 10 /\ d[1] = "0" /\ d[2] \in {"7", "1"}
      \/ Len(d) = 9 /\ d[1] \in {"7", "1"}
      \/ Len(d) = 12 /\ SubSeq(d, 1, 3) = <<"2", "5", "4">>
                     /\ d[4] \in {"7", "1"}

C21_LastWriteWins ==
    /\ \A r, q \in outputs.rows : r.user_id = q.user_id => r = q
    /\ (fn.f = "load_user_output" /\ fn.ok /\ fn.user_id # "") =>
          LET l == outputs.last[fn.user_id] IN
          /\ fn.res.found <=> l.n > 0
          /\ fn.res.found =>
                /\ fn.res.ai_resume_markdown = l.resume
                /\ fn.res.ai_cover_letter = l.cover_letter
                /\ fn.res.ai_emails = l.emails

\* C21 witness: after a second successful save of u1 (empty resume, a cover
\* letter, no emails) the load returned exactly that, while u2 has a row too
C21_Witness ==
    /\ fn.f = "load_user_output" /\ fn.user_id = "u1" /\ fn.res.found
    /\ outputs.last["u1"].n = 2
    /\ fn.res.ai_resume_markdown = "" /\ fn.res.ai_cover_letter = "Dear"
    /\ fn.res.ai_emails = <<>>
    /\ \E r \in outputs.rows : r.user_id = "u2"

\* C22: the download buttons are on the page only in a run whose
\* is_user_paid returned True without a store error, and only while the
\* session's user has a paid row; the preview of a generated document is
\* rendered whatever is_user_paid returned
C22_OnlyExportIsGated ==
    /\ [](pc["ui"] = "downloads" => Entitled(payments, SessionUser))
    /\ [][(pc["ui"] # "downloads" /\ pc'["ui"] = "downloads") =>
            (/\ Returned("ui", "is_user_paid")
             /\ out["ui"].val /\ ~out["ui"].err)]_vars
    /\ [][(Returned("ui", "is_user_paid") /\ pc'["ui"] # "ret") =>
            PremiumDownloadSection(TRUE, out["ui"].val).preview]_vars

\* C22 witness: the download buttons are shown to the user, whose invoice
\* was confirmed
C22_Witness ==
    /\ pc["ui"] = "downloads"
    /\ \E r \in payments :
          r.user_id = SessionUser /\ r.is_paid = 1 /\ r.invoice_id \in GwInvoices

\* C23 as stated: a mark_user_paid call for a user who has a payment row,
\* pending or paid, adds no row to the ledger
C23_NoRowForUserWithRows ==
    [][\A t \in Threads :
          (/\ call[t].op = "mark_user_paid" /\ pc[t] \in {"body", "body2"}
           /\ pc'[t] = "ret"
           /\ \E r \in payments : r.user_id = call[t].user_id) =>
          Cardinality(payments') = Cardinality(payments)]_vars

\* C24: a report of a state that is not a paid one changes nothing.  The
\* webhook endpoint answers a request whose state is not PAID, COMPLETED or
\* SUCCESS without calling the store (a request that is answered at once
\* leaves ledger, session, calls and lock as they were, and no request with
\* a non-paid state takes the handler anywhere else); a status check ends
\* either with the ledger, the session and the store calls as they were,
\* or, only when the gateway's answer reads as paid, with the call of
\* mark_invoice_paid;
\* and a row holds nothing but pending (is_paid = 0, no paid_at) or
\* confirmed (is_paid = 1, paid_at set), whatever the gateway said
C24_NonPaidReportChangesNothing ==
    /\ [](\A r \in payments :
            /\ r.is_paid \in {0, 1}
            /\ r.is_paid = 0 <=> r.paid_at = Null)
    /\ [][(pc["wh"] = "idle" /\ pc'["wh"] = "sent") =>
            /\ whResp'.code \in {200, 400, 403}
            /\ call' = call /\ lock' = lock
            /\ payments' = payments /\ sess' = sess]_vars
    /\ [][(pc["wh"] = "idle" /\ pc'["wh"] \notin {"idle", "sent"}) =>
            \A req \in NonPaidReports : ~WhHandle(req)]_vars
    /\ [][(pc["ui"] = "status" /\ pc'["ui"] # "status") =>
            \/ /\ pc'["ui"] = "idle"
               /\ payments' = payments /\ sess' = sess
               /\ call' = call /\ lock' = lock
            \/ /\ call'["ui"].op = "mark_invoice_paid"
               /\ gw[sess.pending] = "PAID"
               /\ \E r \in StateReplies :
                     /\ IsStatusReply(sess.pending, r)
                     /\ CheckPaymentStatus(HasConfig("main"), r) = "True"]_vars

\* C24 witness: with the signing secret set, the endpoint has acknowledged
\* a report about the session's invoice, which the customer declined; the
\* row of the invoice is still pending and the session still holds the
\* invoice id
C24_Witness ==
    /\ env.secret /\ env.key
    /\ pc["wh"] = "sent" /\ whResp.code = 200
    /\ pc["ui"] = "idle" /\ sess.pending \in GwInvoices
    /\ gw[sess.pending] = "FAILED"
    /\ \E r \in payments :
          r.invoice_id = sess.pending /\ r.is_paid = 0 /\ r.paid_at = Null

\* C25 as stated: as long as no store call fails, once a confirmation of
\* the user's accepted and paid invoice has been triggered, by the signed
\* webhook or by the status check, the user is eventually entitled
C25_TriggerLeadsToEntitlement ==
    [](StoreOk) => (TriggerFired ~> Entitled(payments, SessionUser))

\* C26: whenever mark_user_paid(u) has returned True, the ledger holds a
\* row of u with is_paid = 1, also when the INSERT OR IGNORE of the
\* synthetic row was skipped; and an is_user_paid(u) call that meets no
\* store error returns True whenever such a row is there
C26_NoFalseSuccess ==
    /\ [](\A t \in Threads :
            (Returned(t, "mark_user_paid") /\ out[t].val) =>
            /\ \E r \in payments : r.user_id = call[t].user_id /\ r.is_paid = 1
            /\ IsUserPaidSelect(payments, call[t].user_id) # {})
    /\ [][\A t \in Threads :
            (Completes(t, "is_user_paid") /\ Entitled(payments, call[t].user_id))
            => out'[t].val]_vars

\* C26 witness: mark_user_paid returned True without inserting: the only
\* row of the user is the synthetic row of this very second, paid by an
\* earlier call
C26_Witness ==
    \E t \in Threads :
        /\ Returned(t, "mark_user_paid") /\ out[t].val /\ call[t].now = clock
        /\ \E r \in payments :
              /\ {q \in payments : q.user_id = call[t].user_id} = {r}
              /\ r.invoice_id = ManualInvoiceId(call[t].user_id, clock)
              /\ r.is_paid = 1 /\ r.paid_at < call[t].now

\* C27: no two rows share an invoice_id, and a create_payment call for an
\* invoice_id that has a row returns False and leaves the table, and with it
\* the user_id, amount, is_paid and paid_at of that row, as they were
C27_InvoiceIdIsUnique ==
    /\ [](\A r, q \in payments : r.invoice_id = q.invoice_id => r = q)
    /\ [][\A t \in Threads :
            (/\ pc[t] # "ret" /\ pc'[t] = "ret"
             /\ call'[t].op = "create_payment"
             /\ RowsOf(payments, call'[t].invoice_id) # {}) =>
            (payments' = payments /\ ~out'[t].val)]_vars

\* C27 witness: create_payment for another user and a valid amount, on an
\* invoice that is confirmed, met no store error and returned False; the
\* row is still the first user's and still confirmed
C27_Witness ==
    \E t \in Threads :
        /\ Returned(t, "create_payment") /\ ~out[t].err /\ ~out[t].val
        /\ call[t].user_id = "u2" /\ call[t].amount > 0
        /\ \E r \in payments :
              /\ r.invoice_id = call[t].invoice_id /\ r.user_id = "u1"
              /\ r.is_paid = 1 /\ r.paid_at # Null

\* C28 as stated: while the session holds a pending_invoice_id, the ledger
\* holds a row with that invoice_id that belongs to the session's user
C28_PendingInvoiceHasRow ==
    sess.pending # NoInvoice =>
        \E r \in payments :
            r.invoice_id = sess.pending /\ r.user_id = SessionUser

\* C29: _db_lock is held by a thread exactly while the thread is inside the
\* with block of a ledger operation, so it is free again at every return,
\* whether the body ran to its end, raised or was never entered; a thread
\* takes the lock only when it is free, as the first step of an operation,
\* and gives it up only by returning; and every operation that has entered
\* the with block returns, with the lock free
C29_LockIsAlwaysReleased ==
    /\ [](\A t \in Threads :
            lock[Proc(t)] = t <=> pc[t] \in {"body", "body2"})
    /\ [][\A t \in Threads :
            /\ (lock[Proc(t)] # t /\ lock'[Proc(t)] = t) =>
                  /\ lock[Proc(t)] = NoThread
                  /\ pc[t] \in {"idle", "ret"} /\ pc'[t] = "body"
            /\ (lock[Proc(t)] = t /\ lock'[Proc(t)] # t) =>
                  (lock'[Proc(t)] = NoThread /\ pc'[t] = "ret")]_vars
    /\ \A t \in {"ui", "api"} :
          (pc[t] \in {"body", "body2"})
              ~> (pc[t] = "ret" /\ lock[Proc(t)] = NoThread)

\* C29 witness: mark_user_paid met a store error and has returned False
\* without a row written; the page run of the session has taken the lock
\* for is_user_paid
C29_Witness ==
    /\ Returned("api", "mark_user_paid") /\ out["api"].err
    /\ \A r \in payments : r.user_id # SessionUser
    /\ pc["ui"] = "body" /\ call["ui"].op = "is_user_paid"
    /\ lock["main"] = "ui"

\* C30: in a session, the runs completed by clicks made while unpaid never
\* exceed 3; a click raises analysis_uses by exactly one when all four
\* generation steps returned and leaves it as it was otherwise (limit
\* reached, input missing, a step raised); a click made while paid is never
\* answered with the limit message
C30_FreeUseLimit ==
    /\ [](kit.free <= FreeLimit)
    /\ [][(kit' # kit /\ kit' # NoKit) =>
            /\ kit'.last.msg = "done" =>
                  /\ kit'.analysis_uses = kit.analysis_uses + 1
                  /\ kit'.last.steps = 4
            /\ kit'.last.msg # "done" =>
                  /\ kit'.analysis_uses = kit.analysis_uses
                  /\ kit'.free = kit.free
                  /\ kit'.last.steps < 4
            /\ kit'.last.paid => kit'.last.msg # "limit"]_vars

\* C30 witness: after three completed runs while unpaid, the click of an
\* unpaid user was answered with the limit message
C30_Witness ==
    /\ kit.free = FreeLimit /\ kit.analysis_uses = FreeLimit
    /\ kit.last.msg = "limit" /\ ~kit.last.paid

====
